---- MODULE Spec2Model ----
(***************************************************************************)
(* Heat Exchanger Performance Calculator (src/app.py).                     *)
(*                                                                         *)
(* The Streamlit script is re-run from top to bottom on every widget       *)
(* change.  The state is the widget state (three unit selectors, nine text *)
(* fields, the download button) together with what the last run of the     *)
(* script computed and rendered.                                           *)
(*                                                                         *)
(* Python floats are modelled as decimal floating-point numbers with an    *)
(* eight digit mantissa and round-half-even, plus nan, inf and -inf.  The  *)
(* sign of zero is not kept.  A value is a record [k, m, e] standing for   *)
(* m * 10^e when k = "fin"; a finite non-zero value is normalised so that  *)
(* 10^7 <= |m| < 10^8.                                                     *)
(***************************************************************************)
EXTENDS Integers, Sequences, FiniteSets, TLC

P4 == 10^4
P7 == 10^7
P8 == 10^8

Abs(x) == IF x < 0 THEN -x ELSE x
Sgn(x) == IF x < 0 THEN -1 ELSE IF x > 0 THEN 1 ELSE 0
Pow10(n) == 10^n

None == [k |-> "none", m |-> 0, e |-> 0]
NaN == [k |-> "nan", m |-> 0, e |-> 0]
PosInf == [k |-> "inf", m |-> 0, e |-> 0]
NegInf == [k |-> "ninf", m |-> 0, e |-> 0]
Fin(m, e) == [k |-> "fin", m |-> m, e |-> e]
Zero == Fin(0, 0)

IsFin(a) == a.k = "fin"
IsZero(a) == a.k = "fin" /\ a.m = 0
\* -1, 0, 1: the sign of a value that is not nan
SignOf(a) == IF a.k = "inf" THEN 1 ELSE IF a.k = "ninf" THEN -1 ELSE Sgn(a.m)
Signed(s) == IF s < 0 THEN NegInf ELSE PosInf

(***************************************************************************)
(* Rounding.  The magnitude is (hi * 10^8 + lo + f) * 10^e with            *)
(* 0 <= lo < 10^8, hi of at most nine digits and 0 < f < 1 iff sticky.     *)
(***************************************************************************)
RECURSIVE ShiftUp(_, _, _)
ShiftUp(hi, lo, e) ==
    IF hi >= P7 \/ (hi = 0 /\ lo = 0) THEN <<hi, lo, e>>
    ELSE ShiftUp(hi * 10 + (lo \div P7), (lo % P7) * 10, e - 1)

\* round-half-even of q + (the fraction num/den, plus a little when sticky)
RoundEven(q, num, half, sticky) ==
    IF num > half \/ (num = half /\ sticky) THEN q + 1
    ELSE IF num = half /\ q % 2 = 1 THEN q + 1
    ELSE q

Carry(s, q, e) == IF q >= P8 THEN Fin(s * (q \div 10), e + 1) ELSE Fin(s * q, e)

RoundLimbs(s, hi, lo, sticky, e) ==
    IF hi = 0 /\ lo = 0 THEN Zero
    ELSE IF hi >= P8
    THEN \* nine digits: the last digit of hi and all of lo are rounded away
         LET q == hi \div 10
             r == hi % 10
         IN  Carry(s, RoundEven(q, r, 5, lo > 0 \/ sticky), e + 9)
    ELSE LET t == ShiftUp(hi, lo, e)
         IN  Carry(s, RoundEven(t[1], t[2], 5 * P7, sticky), t[3] + 8)

FNeg(a) ==
    CASE a.k = "fin" -> Fin(-a.m, a.e)
      [] a.k = "inf" -> NegInf
      [] a.k = "ninf" -> PosInf
      [] OTHER -> a

\* a + b for finite non-zero a, b with a.e >= b.e
AddAligned(a, b) ==
    LET diff == a.e - b.e
        x == Abs(a.m)
        y == Abs(b.m)
        yhi == IF diff <= 8 THEN y \div Pow10(diff) ELSE 0
        ylo == IF diff <= 8 THEN (y % Pow10(diff)) * Pow10(8 - diff)
               ELSE IF diff <= 16 THEN y \div Pow10(diff - 8) ELSE 0
        st == IF diff <= 8 THEN FALSE
              ELSE IF diff <= 16 THEN y % Pow10(diff - 8) # 0 ELSE TRUE
    IN  IF Sgn(a.m) = Sgn(b.m)
        THEN RoundLimbs(Sgn(a.m), x + yhi, ylo, st, a.e - 8)
        ELSE IF ylo = 0 /\ ~st
        THEN IF x >= yhi
             THEN RoundLimbs(Sgn(a.m), x - yhi, 0, FALSE, a.e - 8)
             ELSE RoundLimbs(Sgn(b.m), yhi - x, 0, FALSE, a.e - 8)
        ELSE \* diff >= 1, so yhi < x: borrow one unit of hi
             RoundLimbs(Sgn(a.m), x - yhi - 1,
                        IF st THEN P8 - ylo - 1 ELSE P8 - ylo, st, a.e - 8)

FAdd(a, b) ==
    IF a.k = "nan" \/ b.k = "nan" THEN NaN
    ELSE IF ~IsFin(a) /\ ~IsFin(b) THEN (IF a.k = b.k THEN a ELSE NaN)
    ELSE IF ~IsFin(a) THEN a
    ELSE IF ~IsFin(b) THEN b
    ELSE IF a.m = 0 THEN b
    ELSE IF b.m = 0 THEN a
    ELSE IF a.e >= b.e THEN AddAligned(a, b) ELSE AddAligned(b, a)

FSub(a, b) == FAdd(a, FNeg(b))

FMul(a, b) ==
    IF a.k = "nan" \/ b.k = "nan" THEN NaN
    ELSE IF ~IsFin(a) \/ ~IsFin(b)
    THEN (IF IsZero(a) \/ IsZero(b) THEN NaN ELSE Signed(SignOf(a) * SignOf(b)))
    ELSE IF a.m = 0 \/ b.m = 0 THEN Zero
    ELSE LET x == Abs(a.m)
             y == Abs(b.m)
             x1 == x \div P4
             x0 == x % P4
             y1 == y \div P4
             y0 == y % P4
             mid == x1 * y0 + x0 * y1
             low == (mid % P4) * P4 + x0 * y0
         IN  RoundLimbs(Sgn(a.m) * Sgn(b.m),
                        x1 * y1 + (mid \div P4) + (low \div P8),
                        low % P8, FALSE, a.e + b.e)

\* n more digits of r / y, appended to acc; <<digits, remainder>>
RECURSIVE LongDiv(_, _, _, _)
LongDiv(r, y, n, acc) ==
    IF n = 0 THEN <<acc, r>>
    ELSE LongDiv((r * 10) % y, y, n - 1, acc * 10 + ((r * 10) \div y))

\* IEEE division, as numpy performs it: x/0 is an infinity, 0/0 is nan
FDiv(a, b) ==
    IF a.k = "nan" \/ b.k = "nan" THEN NaN
    ELSE IF ~IsFin(a) THEN (IF ~IsFin(b) THEN NaN
                            ELSE Signed(SignOf(a) * (IF b.m < 0 THEN -1 ELSE 1)))
    ELSE IF ~IsFin(b) THEN Zero
    ELSE IF b.m = 0 THEN (IF a.m = 0 THEN NaN ELSE Signed(Sgn(a.m)))
    ELSE IF a.m = 0 THEN Zero
    ELSE LET x == Abs(a.m)
             y == Abs(b.m)
             h == LongDiv(x % y, y, 8, x \div y)
             l == LongDiv(h[2], y, 8, 0)
         IN  RoundLimbs(Sgn(a.m) * Sgn(b.m), h[1], l[1], l[2] # 0,
                        a.e - b.e - 16)

\* Python's a < b on floats
FLess(a, b) ==
    IF a.k = "nan" \/ b.k = "nan" THEN FALSE
    ELSE IF a.k = b.k /\ ~IsFin(a) THEN FALSE
    ELSE IF a.k = "ninf" \/ b.k = "inf" THEN TRUE
    ELSE IF a.k = "inf" \/ b.k = "ninf" THEN FALSE
    ELSE SignOf(FSub(a, b)) < 0

\* Python's a != b on floats
FNeq(a, b) == a.k = "nan" \/ b.k = "nan" \/ a # b

\* the decimal literal m * 10^e
Dec(m, e) == RoundLimbs(Sgn(m), 0, Abs(m), FALSE, e)

(***************************************************************************)
(* float(val) on a text, a sequence of characters.  After stripping white  *)
(* space Python accepts [sign] (inf | infinity | nan), in any case, or     *)
(* [sign] digits [. digits] [(e|E) [sign] digits] with at least one digit  *)
(* before the exponent, where digits may hold single underscores between   *)
(* two digits.  Anything else raises ValueError.                           *)
(***************************************************************************)
DigitChars == <<"0", "1", "2", "3", "4", "5", "6", "7", "8", "9">>
IsDigit(c) == \E i \in 1..10 : DigitChars[i] = c
DigitVal(c) == (CHOOSE i \in 1..10 : DigitChars[i] = c) - 1
IsSpace(c) == c \in {" ", "\t", "\n"}

RECURSIVE Strip(_)
Strip(s) ==
    IF s = <<>> THEN s
    ELSE IF IsSpace(Head(s)) THEN Strip(Tail(s))
    ELSE IF IsSpace(s[Len(s)]) THEN Strip(SubSeq(s, 1, Len(s) - 1))
    ELSE s

Lower(c) ==
    CASE c = "N" -> "n" [] c = "A" -> "a" [] c = "I" -> "i" [] c = "F" -> "f"
      [] c = "T" -> "t" [] c = "Y" -> "y" [] c = "E" -> "e" [] OTHER -> c
LowerSeq(s) == [i \in 1..Len(s) |-> Lower(s[i])]

\* the first index of s holding a character of cs, or 0
FirstOf(s, cs) ==
    IF \E i \in 1..Len(s) : s[i] \in cs
    THEN CHOOSE i \in 1..Len(s) : s[i] \in cs /\ \A j \in 1..(i - 1) : s[j] \notin cs
    ELSE 0

\* digit (["_"] digit)*
IsDigitPart(s) ==
    /\ s # <<>>
    /\ IsDigit(s[1]) /\ IsDigit(s[Len(s)])
    /\ \A i \in 1..Len(s) : IsDigit(s[i]) \/ s[i] = "_"
    /\ \A i \in 1..(Len(s) - 1) : ~(s[i] = "_" /\ s[i + 1] = "_")

NotUnderscore(c) == c # "_"
RECURSIVE DropZeros(_)
DropZeros(s) == IF s # <<>> /\ Head(s) = "0" THEN DropZeros(Tail(s)) ELSE s
RECURSIVE ToInt(_, _)
ToInt(s, acc) == IF s = <<>> THEN acc ELSE ToInt(Tail(s), acc * 10 + DigitVal(Head(s)))
PadTo8(s) == IF Len(s) >= 8 THEN SubSeq(s, 1, 8) ELSE s \o [i \in 1..(8 - Len(s)) |-> "0"]

\* sign * (the digit string ds) * 10^e, rounded to eight digits
DigitsValue(sign, ds, e) ==
    LET sig == DropZeros(ds)
        n == Len(sig)
    IN  IF n <= 8 THEN RoundLimbs(sign, 0, ToInt(sig, 0), FALSE, e)
        ELSE RoundLimbs(sign, ToInt(SubSeq(sig, 1, 8), 0),
                        ToInt(PadTo8(SubSeq(sig, 9, n)), 0),
                        \E i \in 17..n : sig[i] # "0",
                        e + n - 16)

\* the integer part ip, the fraction fp and the exponent (sign, digits)
ParseFields(ip, fp, hasExp, esign, edig, sign) ==
    IF /\ (ip # <<>> \/ fp # <<>>)
       /\ (ip = <<>> \/ IsDigitPart(ip))
       /\ (fp = <<>> \/ IsDigitPart(fp))
       /\ (~hasExp \/ IsDigitPart(edig))
    THEN DigitsValue(sign, SelectSeq(ip \o fp, NotUnderscore),
                     (IF hasExp THEN esign * ToInt(SelectSeq(edig, NotUnderscore), 0)
                      ELSE 0) - Len(SelectSeq(fp, NotUnderscore)))
    ELSE None

\* mant is split at its first "." (at di, 0 when there is none)
ParseMantissa(mant, di, hasExp, expt, sign) ==
    ParseFields(IF di = 0 THEN mant ELSE SubSeq(mant, 1, di - 1),
                IF di = 0 THEN <<>> ELSE SubSeq(mant, di + 1, Len(mant)),
                hasExp,
                IF expt # <<>> /\ Head(expt) = "-" THEN -1 ELSE 1,
                IF expt # <<>> /\ Head(expt) \in {"+", "-"} THEN Tail(expt) ELSE expt,
                sign)

\* b is split at its first "e" or "E" (at ei, 0 when there is none)
ParseNumber(b, ei, sign) ==
    IF ei = 0 THEN ParseMantissa(b, FirstOf(b, {"."}), FALSE, <<>>, sign)
    ELSE ParseMantissa(SubSeq(b, 1, ei - 1), FirstOf(SubSeq(b, 1, ei - 1), {"."}),
                       TRUE, SubSeq(b, ei + 1, Len(b)), sign)

\* the unsigned body b of a float literal, low its lower case; or None
ParseBody(b, low, sign) ==
    IF low \in {<<"i", "n", "f">>, <<"i", "n", "f", "i", "n", "i", "t", "y">>}
    THEN Signed(sign)
    ELSE IF low = <<"n", "a", "n">> THEN NaN
    ELSE ParseNumber(b, FirstOf(low, {"e"}), sign)

ParseSigned(s) ==
    IF s = <<>> THEN None
    ELSE IF Head(s) \in {"+", "-"}
    THEN ParseBody(Tail(s), LowerSeq(Tail(s)), IF Head(s) = "-" THEN -1 ELSE 1)
    ELSE ParseBody(s, LowerSeq(s), 1)

\* app.py: to_float -- float(val), or None when float raises
to_float(val) == ParseSigned(Strip(val))

(***************************************************************************)
(* The unit selectors (st.radio) and the conversion helpers.               *)
(***************************************************************************)
TempUnits == {"C", "F"}
MassUnits == {"kg/s", "lb/s"}
CpUnits == {"kJ/kgC", "J/kgC", "BTU/lbF"}

\* app.py: to_celsius -- (temp - 32) * 5 / 9 if unit_temp == "F" else temp
\* the factor inverted
to_celsius_Inverted(temp, ut) ==
    IF ut = "F" THEN FDiv(FMul(FSub(temp, Dec(32, 0)), Dec(9, 0)), Dec(5, 0)) ELSE temp

to_celsius(temp, ut) ==
    IF ut = "F" THEN FDiv(FMul(FSub(temp, Dec(32, 0)), Dec(5, 0)), Dec(9, 0))
    ELSE temp

\* app.py: to_kg -- mass * 0.453592 if unit_mass == "lb/s" else mass
to_kg(mass, um) ==
    IF um = "lb/s" THEN FMul(mass, Dec(453592, -6)) ELSE mass

\* app.py: to_kj_per_kgC
to_kj_per_kgC(cp, uc) ==
    IF uc = "J/kgC" THEN FDiv(cp, Dec(1000, 0))
    ELSE IF uc = "BTU/lbF" THEN FMul(cp, Dec(41868, -4))
    ELSE cp

(***************************************************************************)
(* numpy.log on a float: nan for a negative argument, -inf for zero.  The  *)
(* logarithm of a positive x is ln(x) = k ln 10 + j ln 2 + 2 atanh(z)      *)
(* with z = (y - 1) / (y + 1), 1/2 <= y < 2, and atanh by its power series   *)
(* cut after LogTerms terms.                                               *)
(***************************************************************************)
LogTerms == 8

One == Dec(1, 0)
Two == Dec(2, 0)
Ln2 == Dec(69314718, -8)
Ln10 == Dec(23025851, -7)

\* 1/(2k+1) + w (1/(2k+3) + w (...)), n terms
RECURSIVE AtanhSeries(_, _, _)
AtanhSeries(w, k, n) ==
    IF n <= 1 THEN FDiv(One, Dec(2 * k + 1, 0))
    ELSE FAdd(FDiv(One, Dec(2 * k + 1, 0)), FMul(w, AtanhSeries(w, k + 1, n - 1)))

\* ln y for 1/2 <= y < 2
LnNear1(y) ==
    LET z == FDiv(FSub(y, One), FAdd(y, One))
    IN  FMul(FMul(Two, z), AtanhSeries(FMul(z, z), 0, LogTerms))

\* ln y for 1 <= y < 10
RECURSIVE LnSmall(_)
LnSmall(y) ==
    IF ~FLess(y, Two) THEN FAdd(Ln2, LnSmall(FDiv(y, Two))) ELSE LnNear1(y)

\* ln y for finite y >= 1
LnGe1(y) == FAdd(FMul(Dec(y.e + 7, 0), Ln10), LnSmall(Fin(y.m, -7)))

NpLog(x) ==
    CASE x.k = "nan" -> NaN
      [] x.k = "ninf" -> NaN
      [] x.k = "inf" -> PosInf
      [] x.m < 0 -> NaN
      [] x.m = 0 -> NegInf
      [] FLess(x, Dec(5, -1)) -> FNeg(LnGe1(FDiv(One, x)))
      [] FLess(x, One) -> LnNear1(x)
      [] OTHER -> LnGe1(x)

(***************************************************************************)
(* format(v, ".2f"): the text shown for a value, as a count of hundredths, *)
(* or the text nan, inf or -inf.                                           *)
(***************************************************************************)
NoText == [k |-> "none", cents |-> 0]

Fmt2(v) ==
    IF v.k # "fin" THEN [k |-> v.k, cents |-> 0]
    ELSE IF v.e + 2 >= 0 THEN [k |-> "fin", cents |-> v.m * Pow10(v.e + 2)]
    ELSE IF v.e + 2 < -8 THEN [k |-> "fin", cents |-> 0]
    ELSE LET p == Pow10(-(v.e + 2))
         IN  [k |-> "fin",
              cents |-> Sgn(v.m) * RoundEven(Abs(v.m) \div p, (Abs(v.m) % p) * 2, p, FALSE)]

(***************************************************************************)
(* The nine text inputs, and the texts a user types in this model.         *)
(***************************************************************************)
TempFields == {"Th_in", "Th_out", "Tc_in", "Tc_out"}
MassFields == {"m_hot", "m_cold"}
Fields == TempFields \cup MassFields \cup {"Cp", "U", "A"}

Blank == <<>>
Texts ==
    [f \in Fields |->
        CASE f = "Th_in" -> {Blank, <<"8", "0">>, <<"1", "7", "6">>}
          [] f = "Th_out" -> {Blank, <<"5", "0">>, <<"2", "0">>}
          [] f = "m_hot" -> {Blank, <<"1">>}
          [] f = "Tc_in" -> {Blank, <<"2", "0">>}
          [] f = "Tc_out" -> {Blank, <<"4", "5">>, <<"5", "0">>, <<"1", "7", "6">>}
          [] f = "m_cold" -> {Blank, <<"1", ".", "2">>, <<"0">>}
          [] f = "Cp" -> {Blank, <<"4", ".", "1", "8">>}
          [] f = "U" -> {Blank, <<"5", "0", "0">>, <<"n", "a", "n">>, <<"i", "n", "f">>}
          [] f = "A" -> {Blank, <<"1", "0">>, <<"2", ".", "5">>, <<"a", "b", "c">>,
                         <<"1", "_", "0">>}]

VARIABLES
    unit_temp, unit_mass, unit_cp,  \* the three st.radio selectors
    input,      \* the nine st.text_input values
    clicked,    \* what st.button returns in this run
    norm,       \* Th_in .. A as lines 58-68 leave them (None when unparsed)
    res,        \* the quantities of lines 77-86 (None when not evaluated)
    shown,      \* the three st.success texts
    chart,      \* what was handed to the plot
    page        \* the elements rendered below the inputs, in order

vars == <<unit_temp, unit_mass, unit_cp, input, clicked, norm, res, shown, chart, page>>

(***************************************************************************)
(* Lines 58-71: normalisation and the completeness gate.                   *)
(***************************************************************************)
Convert(f, v, ut, um, uc) ==
    IF v = None THEN None
    ELSE CASE f \in TempFields -> to_celsius(v, ut)
           [] f \in MassFields -> to_kg(v, um)
           [] f = "Cp" -> to_kj_per_kgC(v, uc)
           [] OTHER -> v

\* to_float(X_input) for each text t of each field f
Parsed == [f \in Fields |-> [t \in Texts[f] |-> to_float(t)]]

\* what lines 58-68 make of text t in field f under each choice of units
Normalised ==
    [f \in Fields |-> [t \in Texts[f] |-> [ut \in TempUnits |->
        [um \in MassUnits |-> [uc \in CpUnits |->
            Convert(f, Parsed[f][t], ut, um, uc)]]]]]

Normalise(inp, ut, um, uc) ==
    [f \in Fields |-> Normalised[f][inp[f]][ut][um][uc]]

inputs_filled(n) == \A f \in Fields : n[f] # None

(***************************************************************************)
(* Lines 77-86: the thermal solver.  A Python float division by zero       *)
(* raises ZeroDivisionError; a division by a numpy float does not.         *)
(***************************************************************************)
PyMin(a, b) == IF FLess(b, a) THEN b ELSE a

\* the duty taken from U * A instead of m_hot * Cp
Q_hot_FromUA(n) == FMul(FMul(n["U"], n["A"]), FSub(n["Th_in"], n["Th_out"]))
Q_hot(n) == FMul(FMul(n["m_hot"], n["Cp"]), FSub(n["Th_in"], n["Th_out"]))
Q_cold(n) == FMul(FMul(n["m_cold"], n["Cp"]), FSub(n["Tc_out"], n["Tc_in"]))

\* the halving left out
Q_avg_Sum(qh, qc) == FAdd(qh, qc)
Q_avg(qh, qc) == FDiv(FAdd(qh, qc), Two)
delta_T1(n) == FSub(n["Th_in"], n["Tc_out"])
delta_T2(n) == FSub(n["Th_out"], n["Tc_in"])

\* delta_T1 / delta_T2 is evaluated, with delta_T2 == 0
LMTD_raises(d1, d2) == FNeq(d1, d2) /\ IsZero(d2)

\* the limiting case left out
LMTD_NoLimit(d1, d2) == FDiv(FSub(d1, d2), NpLog(FDiv(d1, d2)))
LMTD(d1, d2) ==
    IF FNeq(d1, d2) THEN FDiv(FSub(d1, d2), NpLog(FDiv(d1, d2))) ELSE d1

C_min(n) == PyMin(FMul(n["m_hot"], n["Cp"]), FMul(n["m_cold"], n["Cp"]))
EffDenominator(cmin, n) == FMul(cmin, FSub(n["Th_in"], n["Tc_in"]))
effectiveness_raises(cmin, n) == IsZero(EffDenominator(cmin, n))
effectiveness(qa, cmin, n) == FDiv(qa, EffDenominator(cmin, n))

(***************************************************************************)
(* The script's variables of lines 77-86 as a record r, filled in line by  *)
(* line.  r.raised is the line that raised ZeroDivisionError, or 0; the    *)
(* lines after it are not executed and leave None.                         *)
(***************************************************************************)
NoRes ==
    [Q_hot |-> None, Q_cold |-> None, Q_avg |-> None, delta_T1 |-> None,
     delta_T2 |-> None, LMTD |-> None, C_min |-> None, effectiveness |-> None,
     raised |-> 0]

Lines77to82(qh, qc, d1, d2) ==
    [NoRes EXCEPT !.Q_hot = qh, !.Q_cold = qc, !.Q_avg = Q_avg(qh, qc),
                  !.delta_T1 = d1, !.delta_T2 = d2]

Line83(r) ==
    IF LMTD_raises(r.delta_T1, r.delta_T2) THEN [r EXCEPT !.raised = 83]
    ELSE [r EXCEPT !.LMTD = LMTD(r.delta_T1, r.delta_T2)]

Line85(r, n) == IF r.raised # 0 THEN r ELSE [r EXCEPT !.C_min = C_min(n)]

Line86(r, n) ==
    IF r.raised # 0 THEN r
    ELSE IF effectiveness_raises(r.C_min, n) THEN [r EXCEPT !.raised = 86]
    ELSE [r EXCEPT !.effectiveness = effectiveness(r.Q_avg, r.C_min, n)]

Solve(n) ==
    Line86(Line85(Line83(Lines77to82(Q_hot(n), Q_cold(n), delta_T1(n), delta_T2(n))),
                  n), n)

(***************************************************************************)
(* Lines 95-104: the data of the plot.                                     *)
(***************************************************************************)
T_hot(n) == <<n["Th_in"], n["Th_out"]>>
T_cold(n) == <<n["Tc_in"], n["Tc_out"]>>
YLabel(ut) == <<"Temperature", ut>>

NoChart == [x |-> <<>>, T_hot |-> <<>>, T_cold |-> <<>>, ylabel |-> <<>>]
Chart(n, ut) == [x |-> <<0, 1>>, T_hot |-> T_hot(n), T_cold |-> T_cold(n), ylabel |-> YLabel(ut)]

NoShown == [duty |-> NoText, lmtd |-> NoText, eff |-> NoText]

Footer == <<"hr", "footer">>
ResultsHead == <<"hr", "h3:Results Summary">>
Raised == <<"exception:ZeroDivisionError">>

\* lines 88-90
Shown(r) == [duty |-> Fmt2(r.Q_avg), lmtd |-> Fmt2(r.LMTD), eff |-> Fmt2(r.effectiveness)]

(***************************************************************************)
(* One run of the script from line 58 on.  An uncaught exception ends the  *)
(* run: Streamlit renders it in place of the rest of the page.             *)
(***************************************************************************)
Render(n, r, ut, click) ==
    IF r.raised # 0
    THEN [norm |-> n, res |-> r, shown |-> NoShown, chart |-> NoChart,
          page |-> ResultsHead \o Raised]
    ELSE [norm |-> n, res |-> r, shown |-> Shown(r), chart |-> Chart(n, ut),
          page |-> ResultsHead
                   \o <<"success:duty", "success:lmtd", "success:eff",
                        "hr", "h3:Temperature Profile Graph", "pyplot", "button">>
                   \o (IF click THEN <<"link">> ELSE <<>>)
                   \o Footer]

Results(n) == IF inputs_filled(n) THEN Solve(n) ELSE NoRes

Gate(n, r, ut, click) ==
    IF inputs_filled(n) THEN Render(n, r, ut, click)
    ELSE [norm |-> n, res |-> NoRes, shown |-> NoShown, chart |-> NoChart,
          page |-> <<"info">> \o Footer]

Script(inp, ut, um, uc, click) ==
    {Gate(n, r, ut, click) : <<n, r>> \in {<<n, Results(n)>> : n \in {Normalise(inp, ut, um, uc)}}}

Rerun(inp, ut, um, uc, click) ==
    \E r \in Script(inp, ut, um, uc, click) :
        /\ input' = inp
        /\ unit_temp' = ut
        /\ unit_mass' = um
        /\ unit_cp' = uc
        /\ clicked' = click
        /\ norm' = r.norm
        /\ res' = r.res
        /\ shown' = r.shown
        /\ chart' = r.chart
        /\ page' = r.page

Has(pg, el) == \E i \in 1..Len(pg) : pg[i] = el

Init ==
    \E r \in Script([f \in Fields |-> Blank], "C", "kg/s", "kJ/kgC", FALSE) :
        /\ input = [f \in Fields |-> Blank]
        /\ unit_temp = "C"
        /\ unit_mass = "kg/s"
        /\ unit_cp = "kJ/kgC"
        /\ clicked = FALSE
        /\ norm = r.norm
        /\ res = r.res
        /\ shown = r.shown
        /\ chart = r.chart
        /\ page = r.page

\* the user edits one text field
EditText(f, t) ==
    /\ t # input[f]
    /\ Rerun([input EXCEPT ![f] = t], unit_temp, unit_mass, unit_cp, FALSE)

SelectTemp(u) == u # unit_temp /\ Rerun(input, u, unit_mass, unit_cp, FALSE)
SelectMass(u) == u # unit_mass /\ Rerun(input, unit_temp, u, unit_cp, FALSE)
SelectCp(u) == u # unit_cp /\ Rerun(input, unit_temp, unit_mass, u, FALSE)

\* the user presses "Download Graph as PNG", which the last run rendered
ClickDownload ==
    /\ Has(page, "button")
    /\ Rerun(input, unit_temp, unit_mass, unit_cp, TRUE)

Next ==
    \/ \E f \in Fields : \E t \in Texts[f] : EditText(f, t)
    \/ \E u \in TempUnits : SelectTemp(u)
    \/ \E u \in MassUnits : SelectMass(u)
    \/ \E u \in CpUnits : SelectCp(u)
    \/ ClickDownload

Spec == Init /\ [][Next]_vars

(***************************************************************************)
(* Vocabulary of the properties.                                           *)
(***************************************************************************)
\* all nine fields parsed as numbers
AllParsed == \A f \in Fields : Parsed[f][input[f]] # None

\* the texts of field f that parse as numbers
NumericTexts(f) == {t \in Texts[f] : Parsed[f][t] # None}

\* the three st.success lines are on the page
ResultsShown ==
    /\ Has(page, "success:duty")
    /\ Has(page, "success:lmtd")
    /\ Has(page, "success:eff")

\* a plain decimal numeral: optional sign, digits, at most one point
Unsigned(t) == IF Len(t) > 0 /\ t[1] \in {"+", "-"} THEN Tail(t) ELSE t
IsDecimalText(t) ==
    /\ \A i \in 1..Len(Unsigned(t)) : IsDigit(Unsigned(t)[i]) \/ Unsigned(t)[i] = "."
    /\ \E i \in 1..Len(Unsigned(t)) : IsDigit(Unsigned(t)[i])
    /\ Cardinality({i \in 1..Len(Unsigned(t)) : Unsigned(t)[i] = "."}) <= 1

\* |v - c| <= tol
Near(v, c, tol) ==
    /\ IsFin(v)
    /\ ~FLess(tol, FSub(v, c))
    /\ ~FLess(tol, FSub(c, v))

NonFinite == {"nan", "inf", "ninf"}

\* the temperature differences and the effectiveness denominator of the
\* normalised input on the page
DT1 == FSub(norm["Th_in"], norm["Tc_out"])
DT2 == FSub(norm["Th_out"], norm["Tc_in"])
CMinOfNorm ==
    IF FLess(FMul(norm["m_cold"], norm["Cp"]), FMul(norm["m_hot"], norm["Cp"]))
    THEN FMul(norm["m_cold"], norm["Cp"])
    ELSE FMul(norm["m_hot"], norm["Cp"])
DenOfNorm == FMul(CMinOfNorm, FSub(norm["Th_in"], norm["Tc_in"]))

\* Th_in=80, Th_out=50, m_hot=1, Tc_in=20, Tc_out=45, m_cold=1.2, Cp=4.18
ReferenceScenario ==
    /\ AllParsed
    /\ norm["Th_in"] = Dec(80, 0)
    /\ norm["Th_out"] = Dec(50, 0)
    /\ norm["m_hot"] = Dec(1, 0)
    /\ norm["Tc_in"] = Dec(20, 0)
    /\ norm["Tc_out"] = Dec(45, 0)
    /\ norm["m_cold"] = Dec(12, -1)
    /\ norm["Cp"] = Dec(418, -2)

(***************************************************************************)
(* C1.  Completeness gate: the results, the chart and the download control *)
(* are on the page if and only if all nine fields parsed; otherwise        *)
(* nothing is computed and only the informational message is emitted (and  *)
(* the page footer); the message and the results never appear together.    *)
(***************************************************************************)
C1_CompletenessGate ==
    /\ AllParsed <=> (ResultsShown /\ Has(page, "pyplot") /\ Has(page, "button"))
    /\ ~AllParsed => /\ res = NoRes
                     /\ chart = NoChart
                     /\ page = <<"info">> \o Footer
    /\ ~(Has(page, "info") /\ ResultsShown)

\* a run with nine parsed fields that shows neither results nor message
C1_ParsedButNoResults ==
    /\ AllParsed
    /\ ~ResultsShown
    /\ ~Has(page, "pyplot")
    /\ ~Has(page, "info")

(***************************************************************************)
(* C2.  Arithmetic degeneracy never crashes the evaluation: every run with *)
(* nine parsed fields completes without raising and shows the three        *)
(* results, a zero effectiveness denominator or temperature differences of *)
(* opposite signs showing as a non-finite value.                           *)
(***************************************************************************)
C2_NeverRaises ==
    AllParsed =>
        /\ res.raised = 0
        /\ ~Has(page, "exception:ZeroDivisionError")
        /\ ResultsShown
        /\ IsZero(DenOfNorm) => shown.eff.k \in NonFinite
        /\ (SignOf(DT1) * SignOf(DT2) = -1) => shown.lmtd.k \in NonFinite

\* line 86 raised: C_min * (Th_in - Tc_in) is zero
C2_RaisedAtLine86 ==
    /\ AllParsed
    /\ IsZero(DenOfNorm)
    /\ res.raised = 86
    /\ page = ResultsHead \o Raised

(***************************************************************************)
(* C3.  Parsing: a field text that is empty or is not a decimal number     *)
(* yields None, which fails the completeness gate.                         *)
(***************************************************************************)
C3_NonDecimalIsMissing ==
    \A f \in Fields :
        ~IsDecimalText(input[f]) =>
            /\ Parsed[f][input[f]] = None
            /\ norm[f] = None
            /\ Has(page, "info")
            /\ ~ResultsShown

\* the text nan is taken for a number and the results are shown
C3_NanPassesGate ==
    /\ input["U"] = <<"n", "a", "n">>
    /\ norm["U"] = NaN
    /\ ResultsShown

(***************************************************************************)
(* C4.  Unit normaliser: every parsed temperature becomes (v - 32) * 5 / 9 *)
(* under the selector F and is unchanged otherwise (176 F gives 80), every *)
(* parsed mass flow becomes v * 0.453592 under lb/s and is unchanged       *)
(* otherwise, Cp becomes v / 1000 under J/kgC, v * 4.1868 under BTU/lbF    *)
(* and is unchanged otherwise, and U and A are never converted.            *)
(***************************************************************************)
C4_Reference(f, v, ut, um, uc) ==
    CASE f \in TempFields ->
             IF ut = "F"
             THEN FDiv(FMul(FSub(v, Dec(32, 0)), Dec(5, 0)), Dec(9, 0))
             ELSE v
      [] f \in MassFields ->
             IF um = "lb/s" THEN FMul(v, Dec(453592, -6)) ELSE v
      [] f = "Cp" ->
             IF uc = "J/kgC" THEN FDiv(v, Dec(1000, 0))
             ELSE IF uc = "BTU/lbF" THEN FMul(v, Dec(41868, -4))
             ELSE v
      [] OTHER -> v

\* the reference conversion of every parsed text under every selector combination
C4_Expected ==
    [f \in Fields |-> [t \in NumericTexts(f) |-> [ut \in TempUnits |->
        [um \in MassUnits |-> [uc \in CpUnits |->
            C4_Reference(f, Parsed[f][t], ut, um, uc)]]]]]

C4_UnitNormalizer ==
    /\ \A f \in Fields :
           Parsed[f][input[f]] # None =>
               norm[f] = C4_Expected[f][input[f]][unit_temp][unit_mass][unit_cp]
    /\ \A f \in TempFields :
           (unit_temp = "F" /\ input[f] = <<"1", "7", "6">>) => norm[f] = Dec(80, 0)

C4_Witness ==
    /\ unit_temp = "F"
    /\ input["Th_in"] = <<"1", "7", "6">>
    /\ norm["Th_in"] = Dec(80, 0)
    /\ input["Tc_out"] = <<"4", "5">>
    /\ norm["Tc_out"] = Dec(72222222, -7)
    /\ unit_mass = "lb/s"
    /\ norm["m_cold"] = Dec(5443104, -7)
    /\ unit_cp = "J/kgC"
    /\ norm["Cp"] = Dec(418, -5)
    /\ norm["U"] = Dec(500, 0)
    /\ norm["A"] = Dec(25, -1)

C7_Effectiveness ==
    (AllParsed /\ ~IsZero(DenOfNorm)) =>
        /\ res.C_min = CMinOfNorm
        /\ res.effectiveness = FDiv(res.Q_avg, DenOfNorm)
        /\ ReferenceScenario => Near(res.effectiveness, Dec(50, -2), Dec(1, -2))

\* line 83 raised before lines 85-86 ran, the denominator being non-zero
C7_NotEvaluated ==
    /\ AllParsed
    /\ ~IsZero(DenOfNorm)
    /\ res.raised = 83
    /\ res.C_min = None
    /\ res.effectiveness = None

(***************************************************************************)
(* C8.  Profile renderer: whenever the gate passes the chart holds two     *)
(* ordered samples, position 0 with the inlets and position 1 with the     *)
(* outlets, which are the temperatures the solver used.                    *)
(***************************************************************************)
C8_ProfileSamples ==
    AllParsed =>
        /\ Has(page, "pyplot")
        /\ chart.x = <<0, 1>>
        /\ chart.T_hot = <<norm["Th_in"], norm["Th_out"]>>
        /\ chart.T_cold = <<norm["Tc_in"], norm["Tc_out"]>>

\* the gate passed and no chart was drawn
C8_NoChart ==
    /\ AllParsed
    /\ res.raised # 0
    /\ chart = NoChart
    /\ ~Has(page, "pyplot")

(***************************************************************************)
(* C9.  The unit in the chart's y-axis label is the unit of the plotted    *)
(* values: the temperatures plotted are the values the user entered in     *)
(* the selected unit.                                                      *)
(***************************************************************************)
C9_LabelAgrees ==
    chart # NoChart =>
        /\ chart.ylabel = <<"Temperature", unit_temp>>
        /\ chart.T_hot = <<Parsed["Th_in"][input["Th_in"]], Parsed["Th_out"][input["Th_out"]]>>
        /\ chart.T_cold = <<Parsed["Tc_in"][input["Tc_in"]], Parsed["Tc_out"][input["Tc_out"]]>>

\* 176 entered in F is plotted as 80 under the label Temperature (F)
C9_CelsiusUnderFahrenheit ==
    /\ unit_temp = "F"
    /\ input["Th_in"] = <<"1", "7", "6">>
    /\ chart.ylabel = <<"Temperature", "F">>
    /\ chart.T_hot[1] = Dec(80, 0)

(***************************************************************************)
(* C10.  U and A act only through the gate: when both parse, the run       *)
(* produces the results, the texts and the chart it produces for any       *)
(* other numeric U and A, the selectors and the other seven fields being   *)
(* equal; when U or A does not parse, all results are withheld.            *)
(***************************************************************************)
C10_OnlyThroughGate ==
    /\ (Parsed["U"][input["U"]] # None /\ Parsed["A"][input["A"]] # None) =>
           \A u \in NumericTexts("U") : \A a \in NumericTexts("A") :
               \A o \in Script([input EXCEPT !["U"] = u, !["A"] = a],
                               unit_temp, unit_mass, unit_cp, clicked) :
                   /\ o.res = res
                   /\ o.shown = shown
                   /\ o.chart = chart
    /\ (Parsed["U"][input["U"]] = None \/ Parsed["A"][input["A"]] = None) =>
           /\ res = NoRes
           /\ shown = NoShown
           /\ chart = NoChart

C10_Witness ==
    /\ input["U"] = <<"i", "n", "f">>
    /\ input["A"] = <<"2", ".", "5">>
    /\ ReferenceScenario
    /\ shown.duty = [k |-> "fin", cents |-> 12540]
    /\ shown.lmtd = [k |-> "fin", cents |-> 3244]
    /\ shown.eff = [k |-> "fin", cents |-> 50]

====
